---- MODULE Spec2Model ----
(***************************************************************************)
(* State machine of the React component App (src/src/App.tsx): the        *)
(* exercise catalog, the current index, the code buffer, the feedback     *)
(* output, the loading flag, the solved map, the custom-task modal, and   *)
(* the Gemini calls in flight, each with the values its handler closed    *)
(* over when it was triggered.                                            *)
(*                                                                         *)
(* One action is one React event: a click/change handler run to its first *)
(* await, or the continuation of a handler after its call resolved (React *)
(* applies the setState calls of one continuation together), each         *)
(* followed by the render and the useEffect that the render schedules.    *)
(* A handler reads the state of the render it was created in: a           *)
(* continuation reads the values its handler closed over when triggered.  *)
(* A control is taken only where the view offers it: Check Answer and     *)
(* Generate are disabled while isAiLoading, Generate and Cancel exist     *)
(* only while the modal is shown; the other buttons are never disabled    *)
(* (the modal's overlay does not disable the controls beneath it).        *)
(*                                                                         *)
(* lastResolved and posted are history variables of the last step (the    *)
(* call that resolved in it, the fetch it made); budget is the number of  *)
(* calls a run may issue and never changes.                               *)
(***************************************************************************)
EXTENDS Integers, Sequences, FiniteSets, Bags, TLC

VARIABLES exercises, currentIdx, code, output, isAiLoading, solvedStatus,
          showAiModal, aiCustomInput, calls, issued, clock, mounted,
          lastResolved, posted, budget

vars == <<exercises, currentIdx, code, output, isAiLoading, solvedStatus,
          showAiModal, aiCustomInput, calls, issued, clock, mounted,
          lastResolved, posted, budget>>

(***************************************************************************)
(* Bounds of the exploration.                                              *)
(***************************************************************************)
\* calls issued in one run (budget, the same in every state of a run)
MaxCalls == 3
\* milliseconds that pass in one run
MaxTicks == 1

(***************************************************************************)
(* JavaScript values: primitives are [t, v], objects are [t, p].           *)
(***************************************************************************)
Str(s) == [t |-> "string", v |-> s]
Bool(b) == [t |-> "boolean", v |-> IF b THEN "true" ELSE "false"]
Null == [t |-> "null", v |-> ""]
Undefined == [t |-> "undefined", v |-> ""]
Obj(props) == [t |-> "object", p |-> props]

\* ToBoolean: what `if (x)`, `!x` and `x || y` test
Truthy(x) ==
    CASE x.t = "string" -> x.v # ""
      [] x.t = "boolean" -> x.v = "true"
      [] x.t = "object" -> TRUE
      [] OTHER -> FALSE

\* x.name, for a value x that is not null or undefined
Get(x, name) ==
    IF x.t = "object" /\ name \in DOMAIN x.p THEN x.p[name] ELSE Undefined

\* `${x}` inside a template literal
Interpolate(x) ==
    CASE x.t = "string" -> x.v
      [] x.t = "undefined" -> "undefined"
      [] x.t = "null" -> "null"
      [] OTHER -> "[object Object]"

(***************************************************************************)
(* The seed catalog.                                                       *)
(***************************************************************************)
INITIAL_EXERCISES ==
    << [id |-> 1, title |-> Str("GC Optimization (UI Dashboard)"),
        category |-> Str("C# / Performance"),
        prompt |-> Str("Refactor the 'UpdateDashboard' method"),
        initialCode |-> Str("public class DashboardController")],
       [id |-> 2, title |-> Str("3D Math (Golf Hit Detection)"),
        category |-> Str("Vector Math"),
        prompt |-> Str("Determine if a ball velocity is within a 30-degree cone"),
        initialCode |-> Str("public class PhysicsLogic")],
       [id |-> 3, title |-> Str("Shader Logic (Pulse Effect)"),
        category |-> Str("HLSL"),
        prompt |-> Str("Calculate a 'pulse' factor (0-1)"),
        initialCode |-> Str("fixed4 frag (v2f i) : SV_Target")],
       [id |-> 4, title |-> Str("Asset Pipeline Audit"),
        category |-> Str("Editor Scripting"),
        prompt |-> Str("Write a script that finds all textures in a path"),
        initialCode |-> Str("public class AssetAuditor")] >>

\* lastResolved is a history variable: the call whose continuation was the
\* last step, with the value its await yielded; NoCall after a user event
NoCall == [kind |-> "none", result |-> Null]

\* posted is a history variable: the init object of the fetch the last step
\* made, NoPost when the step made none
NoPost == [method |-> "none"]

\* Date.now() when the page is loaded: far above the seed identifiers
ClockStart == 1000

\* const exercise = exercises[currentIdx]
exercise == exercises[currentIdx + 1]

\* UseEffect without its setOutput("")
UseEffectKeepsOutput(exs, idx) ==
    /\ code' = exs[idx + 1].initialCode
    /\ UNCHANGED output

\* useEffect(() => { setCode(exercise.initialCode); setOutput("") },
\*           [currentIdx, exercises]), run after the render of the new state
\* (exs and idx are the state the render showed)
UseEffect(exs, idx) ==
    /\ code' = exs[idx + 1].initialCode
    /\ output' = Str("")

Init ==
    /\ exercises = INITIAL_EXERCISES
    /\ currentIdx = 0
    /\ code = INITIAL_EXERCISES[1].initialCode
    /\ output = Str("")
    /\ isAiLoading = FALSE
    /\ solvedStatus = <<>>
    /\ showAiModal = FALSE
    /\ aiCustomInput = <<>>
    /\ calls = EmptyBag
    /\ issued = 0
    /\ clock = ClockStart
    /\ mounted = TRUE
    /\ lastResolved = NoCall
    /\ posted = NoPost
    /\ budget = MaxCalls

(***************************************************************************)
(* Rendering.  The component renders output.includes(...): a render with   *)
(* an output that is not a string throws, and React unmounts the tree.     *)
(***************************************************************************)
RenderThrows(out) == out.t # "string"

Render == mounted' = ~RenderThrows(output')

(***************************************************************************)
(* Navigation.                                                             *)
(***************************************************************************)
\* handleNext with the bound off by one (currentIdx < exercises.length):
\* past the end `exercise` is undefined and the render throws
handleNextOffByOne ==
    /\ mounted
    /\ lastResolved' = NoCall
    /\ posted' = NoPost
    /\ UNCHANGED budget
    /\ IF currentIdx < Len(exercises) - 1
       THEN /\ currentIdx' = currentIdx + 1
            /\ UseEffect(exercises, currentIdx + 1)
            /\ UNCHANGED mounted
       ELSE /\ currentIdx' = currentIdx + 1
            /\ mounted' = FALSE
            /\ UNCHANGED <<code, output>>
    /\ UNCHANGED <<exercises, isAiLoading, solvedStatus, showAiModal,
                   aiCustomInput, calls, issued, clock>>

handleNext ==
    /\ mounted
    /\ lastResolved' = NoCall
    /\ posted' = NoPost
    /\ UNCHANGED budget
    /\ IF currentIdx < Len(exercises) - 1
       THEN currentIdx' = currentIdx + 1 /\ UseEffect(exercises, currentIdx + 1)
       ELSE UNCHANGED <<currentIdx, code, output>>
    /\ UNCHANGED <<exercises, isAiLoading, solvedStatus, showAiModal,
                   aiCustomInput, calls, issued, clock, mounted>>

\* handlePrev refusing to navigate while a call is loading
handlePrevWhenIdle ==
    /\ mounted
    /\ ~isAiLoading
    /\ lastResolved' = NoCall
    /\ posted' = NoPost
    /\ UNCHANGED budget
    /\ IF currentIdx > 0
       THEN currentIdx' = currentIdx - 1 /\ UseEffect(exercises, currentIdx - 1)
       ELSE UNCHANGED <<currentIdx, code, output>>
    /\ UNCHANGED <<exercises, isAiLoading, solvedStatus, showAiModal,
                   aiCustomInput, calls, issued, clock, mounted>>

handlePrev ==
    /\ mounted
    /\ lastResolved' = NoCall
    /\ posted' = NoPost
    /\ UNCHANGED budget
    /\ IF currentIdx > 0
       THEN currentIdx' = currentIdx - 1 /\ UseEffect(exercises, currentIdx - 1)
       ELSE UNCHANGED <<currentIdx, code, output>>
    /\ UNCHANGED <<exercises, isAiLoading, solvedStatus, showAiModal,
                   aiCustomInput, calls, issued, clock, mounted>>

(***************************************************************************)
(* The code editor and the custom-task modal.                              *)
(***************************************************************************)
\* what the user can type into the code textarea
CodeInputs == {Str("// edited")}

\* what the user can type into the topic textarea, as sequences of characters
TopicInputs == {<<>>, <<" ">>, <<"G">>}

\* setCode with the textarea disabled while a call is loading
setCodeWhenIdle(value) ==
    /\ mounted
    /\ ~isAiLoading
    /\ lastResolved' = NoCall
    /\ posted' = NoPost
    /\ UNCHANGED budget
    /\ code' = value
    /\ UNCHANGED <<exercises, currentIdx, output, isAiLoading, solvedStatus,
                   showAiModal, aiCustomInput, calls, issued, clock, mounted>>

\* textarea onChange={(e) => setCode(e.target.value)}
setCode(value) ==
    /\ mounted
    /\ lastResolved' = NoCall
    /\ posted' = NoPost
    /\ UNCHANGED budget
    /\ code' = value
    /\ UNCHANGED <<exercises, currentIdx, output, isAiLoading, solvedStatus,
                   showAiModal, aiCustomInput, calls, issued, clock, mounted>>

\* resetCode clearing the output as navigation does
resetCodeClearsOutput ==
    /\ mounted
    /\ lastResolved' = NoCall
    /\ posted' = NoPost
    /\ UNCHANGED budget
    /\ code' = exercise.initialCode
    /\ output' = Str("")
    /\ UNCHANGED <<exercises, currentIdx, isAiLoading, solvedStatus,
                   showAiModal, aiCustomInput, calls, issued, clock, mounted>>

\* Reset Code button: onClick={() => setCode(exercise.initialCode)}
resetCode ==
    /\ mounted
    /\ lastResolved' = NoCall
    /\ posted' = NoPost
    /\ UNCHANGED budget
    /\ code' = exercise.initialCode
    /\ UNCHANGED <<exercises, currentIdx, output, isAiLoading, solvedStatus,
                   showAiModal, aiCustomInput, calls, issued, clock, mounted>>

\* Custom Task button: onClick={() => setShowAiModal(true)}
openAiModal ==
    /\ mounted
    /\ lastResolved' = NoCall
    /\ posted' = NoPost
    /\ UNCHANGED budget
    /\ showAiModal' = TRUE
    /\ UNCHANGED <<exercises, currentIdx, code, output, isAiLoading,
                   solvedStatus, aiCustomInput, calls, issued, clock, mounted>>

\* cancelAiModal aborting the GenerateExercise calls in flight
cancelAiModalAborts ==
    /\ mounted
    /\ lastResolved' = NoCall
    /\ posted' = NoPost
    /\ UNCHANGED budget
    /\ showAiModal
    /\ showAiModal' = FALSE
    /\ calls' = [call \in {c \in DOMAIN calls : c.kind # "GenerateExercise"}
                   |-> calls[call]]
    /\ UNCHANGED <<exercises, currentIdx, code, output, isAiLoading,
                   solvedStatus, aiCustomInput, issued, clock, mounted>>

\* Cancel button of the modal: onClick={() => setShowAiModal(false)}
cancelAiModal ==
    /\ mounted
    /\ lastResolved' = NoCall
    /\ posted' = NoPost
    /\ UNCHANGED budget
    /\ showAiModal
    /\ showAiModal' = FALSE
    /\ UNCHANGED <<exercises, currentIdx, code, output, isAiLoading,
                   solvedStatus, aiCustomInput, calls, issued, clock, mounted>>

\* topic textarea: onChange={(e) => setAiCustomInput(e.target.value)}
setAiCustomInput(value) ==
    /\ mounted
    /\ lastResolved' = NoCall
    /\ posted' = NoPost
    /\ UNCHANGED budget
    /\ showAiModal
    /\ aiCustomInput' = value
    /\ UNCHANGED <<exercises, currentIdx, code, output, isAiLoading,
                   solvedStatus, showAiModal, calls, issued, clock, mounted>>

(***************************************************************************)
(* Requests.  A template literal is the tuple of its pieces.               *)
(***************************************************************************)
Request(systemInstruction, userQuery, isJson) ==
    [systemInstruction |-> systemInstruction, userQuery |-> userQuery,
     isJson |-> isJson]

EvaluateRequest(ex, buffer) ==
    Request(<<"You are a Senior Unity Tech Artist Interviewer. \n    Evaluate the user's code for: \"",
              Interpolate(ex.prompt),
              "\". \n    Be strict about Garbage Collection and performance.\n    Return JSON: { \"correct\": boolean, \"feedback\": \"string\", \"hints\": [\"string\"] }">>,
            <<"Exercise: ", Interpolate(ex.title), "\nCode:\n", Interpolate(buffer)>>,
            TRUE)

HintRequest(ex, buffer) ==
    Request(<<"Provide a subtle hint for the following coding task without giving away the full answer. Be technical. Focus on Unity best practices.">>,
            <<"Task: ", Interpolate(ex.prompt), "\nMy Current Code: ", Interpolate(buffer)>>,
            FALSE)

SolutionRequest(ex) ==
    Request(<<"Provide the optimal solution for the following Unity Tech Artist task. Explain why this solution is better for a performance-critical environment like Garmin (wearables/embedded).">>,
            <<"Task: ", Interpolate(ex.prompt)>>,
            FALSE)

ConceptExplainRequest(ex) ==
    Request(<<"Explain the technical concept behind this specific Unity Task in depth for a Senior Engineer. Focus on hardware implications and engine architecture.">>,
            <<"Task: ", Interpolate(ex.title), "\nCategory: ", Interpolate(ex.category)>>,
            FALSE)

PerformanceAuditRequest(buffer) ==
    Request(<<"Audit the user's Unity code specifically for mobile performance bottlenecks. Mention draw calls, memory allocation, and battery efficiency.">>,
            <<Interpolate(buffer)>>,
            FALSE)

\* the topic is a sequence of characters: it is embedded as it is
GenerateExerciseRequest(topic) ==
    Request(<<"Generate a new technical artist interview coding exercise based on the user's topic. \n    It must be related to Garmin products (Golf simulators, GPS, Aviation, Wearables).\n    Include a title, category, difficulty, prompt, and some initial boilerplate code.\n    Return JSON: { \"id\": number, \"title\": \"string\", \"category\": \"string\", \"difficulty\": \"string\", \"prompt\": \"string\", \"initialCode\": \"string\" }">>,
            <<"Topic: ">> \o topic,
            TRUE)

(***************************************************************************)
(* Calls in flight.  The request leaves with the POST; what stays is what  *)
(* the code reads after the await: isJson in callGemini, and the values of *)
(* the render the handler was triggered in (<<>> where it reads none).     *)
(***************************************************************************)
Call(kind, request, exs, ex, solved) ==
    [kind |-> kind, isJson |-> request.isJson, exercises |-> exs,
     exercise |-> ex, solvedStatus |-> solved]

\* the init object of the fetch: method, and the body that JSON.stringify
\* is given (generationConfig is spread in only when isJson)
Body(request) ==
    IF request.isJson
    THEN [method |-> "POST",
          contents |-> request.userQuery,
          systemInstruction |-> request.systemInstruction,
          generationConfig |-> [responseMimeType |-> "application/json"]]
    ELSE [method |-> "POST",
          contents |-> request.userQuery,
          systemInstruction |-> request.systemInstruction]

\* callGemini with a retry: a second fetch of the same request
callGeminiTwice(call, request) ==
    /\ issued < budget
    /\ isAiLoading' = TRUE
    /\ calls' = calls (+) SetToBag({call}) (+) SetToBag({call})
    /\ issued' = issued + 2
    /\ posted' = Body(request)

\* callGemini spreading generationConfig into every body
callGeminiAlwaysJson(call, request) ==
    /\ issued < budget
    /\ isAiLoading' = TRUE
    /\ calls' = calls (+) SetToBag({call})
    /\ issued' = issued + 1
    /\ posted' = Body(Request(request.systemInstruction, request.userQuery,
                              TRUE))

\* callGemini up to its fetch: setIsAiLoading(true), one POST
callGemini(call, request) ==
    /\ issued < budget
    /\ isAiLoading' = TRUE
    /\ calls' = calls (+) SetToBag({call})
    /\ issued' = issued + 1
    /\ posted' = Body(request)

\* Check Answer button, disabled={isAiLoading}
checkSolution ==
    /\ mounted
    /\ lastResolved' = NoCall
    /\ UNCHANGED budget
    /\ ~isAiLoading
    /\ output' = Str("AI Coach is reviewing your code for performance and correctness...")
    /\ callGemini(Call("Evaluate", EvaluateRequest(exercise, code), <<>>,
                       exercise, solvedStatus),
                  EvaluateRequest(exercise, code))
    /\ UNCHANGED <<exercises, currentIdx, code, solvedStatus, showAiModal,
                   aiCustomInput, clock, mounted>>

\* Get Hint button
getAiHint ==
    /\ mounted
    /\ lastResolved' = NoCall
    /\ UNCHANGED budget
    /\ output' = Str("Generating a helpful hint...")
    /\ callGemini(Call("Hint", HintRequest(exercise, code), <<>>, <<>>, <<>>),
                  HintRequest(exercise, code))
    /\ UNCHANGED <<exercises, currentIdx, code, solvedStatus, showAiModal,
                   aiCustomInput, clock, mounted>>

\* getSolution sending the code buffer along with the prompt, as getAiHint
\* does
getSolutionEmbedsCode ==
    /\ mounted
    /\ lastResolved' = NoCall
    /\ UNCHANGED budget
    /\ output' = Str("Generating model solution and explanation...")
    /\ callGemini(Call("Solution", SolutionRequest(exercise), <<>>, <<>>, <<>>),
                  Request(SolutionRequest(exercise).systemInstruction,
                          <<"Task: ", Interpolate(exercise.prompt),
                            "\nMy Current Code: ", Interpolate(code)>>,
                          FALSE))
    /\ UNCHANGED <<exercises, currentIdx, code, solvedStatus, showAiModal,
                   aiCustomInput, clock, mounted>>

\* AI Solution button
getSolution ==
    /\ mounted
    /\ lastResolved' = NoCall
    /\ UNCHANGED budget
    /\ output' = Str("Generating model solution and explanation...")
    /\ callGemini(Call("Solution", SolutionRequest(exercise), <<>>, <<>>, <<>>),
                  SolutionRequest(exercise))
    /\ UNCHANGED <<exercises, currentIdx, code, solvedStatus, showAiModal,
                   aiCustomInput, clock, mounted>>

\* Explain Concept button (inline onClick)
explainConcept ==
    /\ mounted
    /\ lastResolved' = NoCall
    /\ UNCHANGED budget
    /\ output' = Str("Explaining technical concept...")
    /\ callGemini(Call("ConceptExplain", ConceptExplainRequest(exercise),
                       <<>>, <<>>, <<>>),
                  ConceptExplainRequest(exercise))
    /\ UNCHANGED <<exercises, currentIdx, code, solvedStatus, showAiModal,
                   aiCustomInput, clock, mounted>>

\* Performance Audit button (inline onClick)
performanceAudit ==
    /\ mounted
    /\ lastResolved' = NoCall
    /\ UNCHANGED budget
    /\ output' = Str("Starting performance audit...")
    /\ callGemini(Call("PerformanceAudit", PerformanceAuditRequest(code),
                       <<>>, <<>>, <<>>),
                  PerformanceAuditRequest(code))
    /\ UNCHANGED <<exercises, currentIdx, code, solvedStatus, showAiModal,
                   aiCustomInput, clock, mounted>>

\* if (!aiCustomInput) return;
TopicRejected(topic) == Len(topic) = 0

\* Generate button of the modal, disabled={isAiLoading}
generateCustomExercise ==
    /\ mounted
    /\ lastResolved' = NoCall
    /\ UNCHANGED budget
    /\ showAiModal
    /\ ~isAiLoading
    /\ IF TopicRejected(aiCustomInput)
       THEN posted' = NoPost /\ UNCHANGED <<isAiLoading, calls, issued>>
       ELSE callGemini(Call("GenerateExercise",
                            GenerateExerciseRequest(aiCustomInput),
                            exercises, <<>>, <<>>),
                       GenerateExerciseRequest(aiCustomInput))
    /\ UNCHANGED <<exercises, currentIdx, code, output, solvedStatus,
                   showAiModal, aiCustomInput, clock, mounted>>

(***************************************************************************)
(* Responses of the endpoint, and what callGemini makes of them.           *)
(***************************************************************************)
EvalPassText == "{\"correct\":true,\"feedback\":\"Good use of StringBuilder.\",\"hints\":[]}"
EvalFailText == "{\"correct\":false,\"feedback\":\"Still allocates per frame.\",\"hints\":[\"cache\"]}"
GenText == "{\"id\":1,\"title\":\"GPS Distance Math\",\"category\":\"GPS\",\"difficulty\":\"Easy\",\"prompt\":\"Compute the haversine distance\",\"initialCode\":\"public class Gps\"}"

JsonTexts == {EvalPassText, EvalFailText, GenText, "null", "not json"}
PlainTexts == {"Cache the StringBuilder in a field.", ""}

\* JSON.parse on the texts above: [ok, value]; ok = FALSE is a SyntaxError
JsonParse(text) ==
    CASE text = EvalPassText ->
           [ok |-> TRUE,
            value |-> Obj([correct |-> Bool(TRUE),
                           feedback |-> Str("Good use of StringBuilder.")])]
      [] text = EvalFailText ->
           [ok |-> TRUE,
            value |-> Obj([correct |-> Bool(FALSE),
                           feedback |-> Str("Still allocates per frame.")])]
      [] text = GenText ->
           [ok |-> TRUE,
            value |-> Obj([id |-> 1, title |-> Str("GPS Distance Math"),
                           category |-> Str("GPS"),
                           prompt |-> Str("Compute the haversine distance"),
                           initialCode |-> Str("public class Gps")])]
      [] text = "null" -> [ok |-> TRUE, value |-> Null]
      [] OTHER -> [ok |-> FALSE, value |-> Undefined]

\* what the fetch and the reading of the response come to: fetch rejects
\* (networkError), response.ok is false (notOk), the path
\* data.candidates[0].content.parts[0] does not exist (badShape), the part
\* exists and has no text (noText), or the part has a text (ok)
Responses(isJson) ==
    {[kind |-> k, text |-> ""] :
       k \in {"networkError", "notOk", "badShape", "noText"}}
    \cup {[kind |-> "ok", text |-> t] :
            t \in IF isJson THEN JsonTexts ELSE PlainTexts}

\* callGemini after its fetch: the value the handler's await yields
\* (JSON.parse(undefined) throws; without isJson the undefined text is
\* returned as it is)
callGeminiResult(response, isJson) ==
    IF response.kind = "noText" THEN (IF isJson THEN Null ELSE Undefined)
    ELSE IF response.kind # "ok" THEN Null
    ELSE IF ~isJson THEN Str(response.text)
    ELSE IF JsonParse(response.text).ok THEN JsonParse(response.text).value
    ELSE Null

(***************************************************************************)
(* Continuations: a call in flight resolves with a response, callGemini's  *)
(* finally runs and the handler goes on with the values it closed over.    *)
(* Date.now() is read then: any value from the last one read onwards.      *)
(***************************************************************************)
\* { ...solved, [id]: true }
MarkSolved(solved, id) ==
    [k \in (DOMAIN solved) \cup {id} |-> IF k = id THEN TRUE ELSE solved[k]]

\* { ...result, id: now }, as the fields of a record the component reads
NewExercise(result, now) ==
    [id |-> now, title |-> Get(result, "title"),
     category |-> Get(result, "category"), prompt |-> Get(result, "prompt"),
     initialCode |-> Get(result, "initialCode")]

\* checkSolutionDone without its `if (result.correct)`
checkSolutionDoneAlwaysSolved(call, result) ==
    /\ IF Truthy(result)
       THEN /\ output' = Get(result, "feedback")
            /\ solvedStatus' = MarkSolved(call.solvedStatus, call.exercise.id)
       ELSE /\ output' = Str("Error connecting to AI Coach. Please try again.")
            /\ UNCHANGED solvedStatus
    /\ isAiLoading' = FALSE
    /\ UNCHANGED <<exercises, currentIdx, code, showAiModal, aiCustomInput,
                   clock>>

\* checkSolutionDone marking the exercise shown when the result is applied
\* instead of the one it closed over
checkSolutionDoneMarksCurrent(call, result) ==
    /\ IF Truthy(result)
       THEN /\ output' = Get(result, "feedback")
            /\ solvedStatus' =
                 IF Truthy(Get(result, "correct"))
                 THEN MarkSolved(call.solvedStatus, exercise.id)
                 ELSE solvedStatus
       ELSE /\ output' = Str("Error connecting to AI Coach. Please try again.")
            /\ UNCHANGED solvedStatus
    /\ isAiLoading' = FALSE
    /\ UNCHANGED <<exercises, currentIdx, code, showAiModal, aiCustomInput,
                   clock>>

\* checkSolutionDone without its else branch: on a null result the
\* placeholder stays in the output
checkSolutionDoneNoErrorMessage(call, result) ==
    /\ IF Truthy(result)
       THEN /\ output' = Get(result, "feedback")
            /\ solvedStatus' =
                 IF Truthy(Get(result, "correct"))
                 THEN MarkSolved(call.solvedStatus, call.exercise.id)
                 ELSE solvedStatus
       ELSE UNCHANGED <<output, solvedStatus>>
    /\ isAiLoading' = FALSE
    /\ UNCHANGED <<exercises, currentIdx, code, showAiModal, aiCustomInput,
                   clock>>

checkSolutionDone(call, result) ==
    /\ IF Truthy(result)
       THEN /\ output' = Get(result, "feedback")
            /\ solvedStatus' =
                 IF Truthy(Get(result, "correct"))
                 THEN MarkSolved(call.solvedStatus, call.exercise.id)
                 ELSE solvedStatus
       ELSE /\ output' = Str("Error connecting to AI Coach. Please try again.")
            /\ UNCHANGED solvedStatus
    /\ isAiLoading' = FALSE
    /\ UNCHANGED <<exercises, currentIdx, code, showAiModal, aiCustomInput,
                   clock>>

\* getAiHintDone applying its result only while its own placeholder is
\* still shown (a result that arrives after another action is dropped)
getAiHintDoneUnlessOverwritten(result) ==
    /\ output' = IF output # Str("Generating a helpful hint...") THEN output
                 ELSE IF Truthy(result) THEN result
                 ELSE Str("Could not generate hint.")
    /\ isAiLoading' = FALSE
    /\ UNCHANGED <<exercises, currentIdx, code, solvedStatus, showAiModal,
                   aiCustomInput, clock>>

\* getAiHintDone with a callGemini that has no finally: loading stays true
getAiHintDoneKeepsLoading(result) ==
    /\ output' = IF Truthy(result) THEN result
                 ELSE Str("Could not generate hint.")
    /\ UNCHANGED <<exercises, currentIdx, code, solvedStatus, showAiModal,
                   aiCustomInput, clock, isAiLoading>>

getAiHintDone(result) ==
    /\ output' = IF Truthy(result) THEN result
                 ELSE Str("Could not generate hint.")
    /\ isAiLoading' = FALSE
    /\ UNCHANGED <<exercises, currentIdx, code, solvedStatus, showAiModal,
                   aiCustomInput, clock>>

getSolutionDone(result) ==
    /\ output' = IF Truthy(result) THEN result
                 ELSE Str("Could not generate solution.")
    /\ isAiLoading' = FALSE
    /\ UNCHANGED <<exercises, currentIdx, code, solvedStatus, showAiModal,
                   aiCustomInput, clock>>

\* Explain Concept and Performance Audit: setOutput(res)
setOutputDone(result) ==
    /\ output' = result
    /\ isAiLoading' = FALSE
    /\ UNCHANGED <<exercises, currentIdx, code, solvedStatus, showAiModal,
                   aiCustomInput, clock>>

\* generateCustomExerciseDone closing the modal and clearing the topic
\* after the `if (result)` block, on failure too
generateCustomExerciseDoneAlwaysCloses(call, result, now) ==
    /\ IF Truthy(result)
       THEN /\ exercises' = Append(call.exercises, NewExercise(result, now))
            /\ currentIdx' = Len(call.exercises)
            /\ clock' = now
            /\ UseEffect(Append(call.exercises, NewExercise(result, now)),
                         Len(call.exercises))
       ELSE UNCHANGED <<exercises, currentIdx, code, output, clock>>
    /\ showAiModal' = FALSE
    /\ aiCustomInput' = <<>>
    /\ isAiLoading' = FALSE
    /\ UNCHANGED solvedStatus

generateCustomExerciseDone(call, result, now) ==
    /\ IF Truthy(result)
       THEN /\ exercises' = Append(call.exercises, NewExercise(result, now))
            /\ currentIdx' = Len(call.exercises)
            /\ showAiModal' = FALSE
            /\ aiCustomInput' = <<>>
            /\ clock' = now
            /\ UseEffect(Append(call.exercises, NewExercise(result, now)),
                         Len(call.exercises))
       ELSE UNCHANGED <<exercises, currentIdx, showAiModal, aiCustomInput,
                        code, output, clock>>
    /\ isAiLoading' = FALSE
    /\ UNCHANGED solvedStatus

\* the values Date.now() can yield when the call resolves (the last value
\* read where the handler does not read the clock)
Now(call) ==
    IF call.kind = "GenerateExercise"
    THEN clock .. ClockStart + MaxTicks
    ELSE {clock}

Resolve(call, response, now) ==
    /\ mounted
    /\ BagIn(call, calls)
    /\ LET result == callGeminiResult(response, call.isJson)
       IN CASE call.kind = "Evaluate" -> checkSolutionDone(call, result)
            [] call.kind = "Hint" -> getAiHintDone(result)
            [] call.kind = "Solution" -> getSolutionDone(result)
            [] call.kind = "GenerateExercise" ->
                 generateCustomExerciseDone(call, result, now)
            [] OTHER -> setOutputDone(result)
    /\ calls' = calls (-) SetToBag({call})
    /\ lastResolved' =
         [kind |-> call.kind,
          result |-> callGeminiResult(response, call.isJson)]
    /\ Render
    /\ posted' = NoPost
    /\ UNCHANGED <<issued, budget>>

\* the fetch of a call in flight settles and its handler goes on
ResolveSome ==
    \E call \in BagToSet(calls) :
      \E response \in Responses(call.isJson) :
        \E now \in Now(call) :
          Resolve(call, response, now)

Next ==
    \/ handleNext
    \/ handlePrev
    \/ \E value \in CodeInputs : setCode(value)
    \/ resetCode
    \/ openAiModal
    \/ cancelAiModal
    \/ \E value \in TopicInputs : setAiCustomInput(value)
    \/ checkSolution
    \/ getAiHint
    \/ getSolution
    \/ explainConcept
    \/ performanceAudit
    \/ generateCustomExercise
    \/ ResolveSome

Spec == Init /\ [][Next]_vars

\* the transport answers every call: a fetch in flight settles in the end
LiveSpec == Spec /\ WF_vars(ResolveSome)

\* A session of the custom-task modal, Get Hint and Check Answer alone,
\* with one call more in its budget.
DeepInit ==
    /\ exercises = INITIAL_EXERCISES
    /\ currentIdx = 0
    /\ code = INITIAL_EXERCISES[1].initialCode
    /\ output = Str("")
    /\ isAiLoading = FALSE
    /\ solvedStatus = <<>>
    /\ showAiModal = FALSE
    /\ aiCustomInput = <<>>
    /\ calls = EmptyBag
    /\ issued = 0
    /\ clock = ClockStart
    /\ mounted = TRUE
    /\ lastResolved = NoCall
    /\ posted = NoPost
    /\ budget = MaxCalls + 1

DeepNext ==
    \/ openAiModal
    \/ \E value \in TopicInputs : setAiCustomInput(value)
    \/ generateCustomExercise
    \/ getAiHint
    \/ checkSolution
    \/ ResolveSome

DeepSpec == DeepInit /\ [][DeepNext]_vars

(***************************************************************************)
(* Properties.                                                             *)
(***************************************************************************)
\* a GenerateExercise call in flight that closed over a catalog other than
\* the current one
StaleGenerate(call) ==
    call.kind = "GenerateExercise" /\ call.exercises # exercises

\* C1: in every reachable state the current index is an index of the
\* catalog: 0 <= currentIdx < exercises.length.
C1_IndexInRange ==
    0 <= currentIdx /\ currentIdx < Len(exercises)

\* C1 witness: a generated exercise is the current one while another
\* GenerateExercise call, issued on the catalog before it, is still in flight.
C1_Witness ==
    /\ Len(exercises) > Len(INITIAL_EXERCISES)
    /\ currentIdx = Len(exercises) - 1
    /\ \E call \in BagToSet(calls) : StaleGenerate(call)

\* C2: while the component is mounted, next and previous can be taken in
\* every state, loading or not; each moves the index by exactly one, except
\* that previous at index 0 and next at the last index leave it unchanged.
C2_Navigation ==
    /\ [](mounted => ENABLED handleNext /\ ENABLED handlePrev)
    /\ [][/\ handleNext =>
               currentIdx' = IF currentIdx = Len(exercises) - 1
                             THEN currentIdx ELSE currentIdx + 1
          /\ handlePrev =>
               currentIdx' = IF currentIdx = 0 THEN 0 ELSE currentIdx - 1]_vars

\* C2 witness: the user navigated to the last exercise while a call was
\* loading (the output is cleared, the call is still in flight).
C2_Witness ==
    /\ isAiLoading
    /\ calls # EmptyBag
    /\ currentIdx = Len(exercises) - 1
    /\ currentIdx > 0
    /\ output = Str("")

\* C3: every step that changes the current index leaves the code buffer
\* equal to the new current exercise's initialCode and the output empty.
C3_IndexChangeResets ==
    [][currentIdx' # currentIdx =>
         /\ code' = exercises'[currentIdx' + 1].initialCode
         /\ output' = Str("")]_vars

\* C3 witness: a GenerateExercise call has just succeeded and its appended
\* exercise is shown with its initial code and an empty output.
C3_Witness ==
    /\ lastResolved.kind = "GenerateExercise"
    /\ Truthy(lastResolved.result)
    /\ currentIdx >= Len(INITIAL_EXERCISES)
    /\ code = exercise.initialCode
    /\ output = Str("")

\* C4: the catalog is append-only: across every step the catalog before the
\* step is a prefix of the catalog after it.
C4_AppendOnly ==
    [][/\ Len(exercises) <= Len(exercises')
       /\ SubSeq(exercises', 1, Len(exercises)) = exercises]_vars

\* the await of a call that resolves with a response
ResultOf(call, response) == callGeminiResult(response, call.isJson)

\* a result of the shape { title, category, prompt, initialCode, ... }
ExerciseShaped(result) ==
    /\ result.t = "object"
    /\ \A name \in {"title", "category", "prompt", "initialCode"} :
         Get(result, name).t = "string"

\* C5: every successful GenerateExercise completion makes the catalog one
\* longer than it was when the result was applied, makes the new last record
\* the current one, clears the output, closes the modal and clears the topic.
C5_GenerateAppendsOne ==
    [][lastResolved'.kind = "GenerateExercise" =>
       \A call \in BagToSet(calls) :
         \A response \in Responses(call.isJson) :
           \A now \in Now(call) :
             (/\ call.kind = "GenerateExercise"
              /\ ExerciseShaped(ResultOf(call, response))
              /\ Resolve(call, response, now))
             => /\ Len(exercises') = Len(exercises) + 1
                /\ currentIdx' = Len(exercises') - 1
                /\ output' = Str("")
                /\ ~showAiModal'
                /\ aiCustomInput' = <<>>]_vars

\* C6: in every reachable state the identifiers of the catalog's records are
\* pairwise distinct.
C6_IdsDistinct ==
    \A i, j \in DOMAIN exercises :
      i # j => exercises[i].id # exercises[j].id

\* a topic that is empty or holds whitespace only
WhitespaceOnly(topic) == \A i \in DOMAIN topic : topic[i] = " "

\* C7: pressing Generate with an empty or whitespace-only topic issues no
\* call and leaves loading, catalog, index, output and modal unchanged.
C7_BlankTopicRejected ==
    [][(generateCustomExercise /\ WhitespaceOnly(aiCustomInput))
         => UNCHANGED <<calls, issued, isAiLoading, exercises, currentIdx,
                        output, showAiModal>>]_vars

\* C8: when a GenerateExercise call resolves as Failure (callGemini yields
\* null), the catalog, the index, the modal's open state and the topic are
\* as before the step, and loading is false after it.
C8_GenerateFailureKeepsState ==
    [][lastResolved'.kind = "GenerateExercise" =>
       \A call \in BagToSet(calls) :
         \A response \in Responses(call.isJson) :
           \A now \in Now(call) :
             (/\ call.kind = "GenerateExercise"
              /\ ResultOf(call, response).t = "null"
              /\ Resolve(call, response, now))
             => /\ UNCHANGED <<exercises, currentIdx, showAiModal,
                               aiCustomInput>>
                /\ ~isAiLoading']_vars

\* C8 witness: a GenerateExercise call has just failed with the modal open
\* and a topic typed in.
C8_Witness ==
    /\ lastResolved.kind = "GenerateExercise"
    /\ lastResolved.result.t = "null"
    /\ showAiModal
    /\ aiCustomInput # <<>>
    /\ ~isAiLoading

\* solvedStatus[id], as the view reads it
IsSolved(status, id) == id \in DOMAIN status /\ status[id]

\* a result of the shape { correct: boolean, feedback: string, ... }
EvaluateShaped(result) ==
    /\ result.t = "object"
    /\ Get(result, "correct").t = "boolean"
    /\ Get(result, "feedback").t = "string"

\* C9: when an Evaluate call resolves with { correct, feedback, hints },
\* the output becomes feedback and loading becomes false; with correct true
\* the evaluated exercise is solved afterwards (also when it was before),
\* with correct false the solved map is unchanged.
C9_EvaluateSuccess ==
    [][lastResolved'.kind = "Evaluate" =>
       \A call \in BagToSet(calls) :
         \A response \in Responses(call.isJson) :
           (/\ call.kind = "Evaluate"
            /\ EvaluateShaped(ResultOf(call, response))
            /\ Resolve(call, response, clock))
           => /\ output' = Get(ResultOf(call, response), "feedback")
              /\ ~isAiLoading'
              /\ IF Truthy(Get(ResultOf(call, response), "correct"))
                 THEN IsSolved(solvedStatus', call.exercise.id)
                 ELSE solvedStatus' = solvedStatus]_vars

\* C9 witness: an Evaluate call has just resolved with correct = true, its
\* feedback is the output and the current exercise is solved.
C9_Witness ==
    /\ lastResolved.kind = "Evaluate"
    /\ EvaluateShaped(lastResolved.result)
    /\ Truthy(Get(lastResolved.result, "correct"))
    /\ output = Get(lastResolved.result, "feedback")
    /\ IsSolved(solvedStatus, exercise.id)
    /\ ~isAiLoading

\* C10: the solved map is monotone: an exercise that is solved stays solved
\* in every later state.
C10_SolvedMonotone ==
    [][\A id \in DOMAIN solvedStatus :
         IsSolved(solvedStatus, id) => IsSolved(solvedStatus', id)]_vars

\* a response that is a Failure of the call: no 2xx response with a text,
\* or, for a structured-output call, a text that JSON.parse rejects
Failure(response, isJson) ==
    \/ response.kind # "ok"
    \/ isJson /\ ~JsonParse(response.text).ok

\* the calls in flight of the given kinds
CallsOf(kinds) == {call \in BagToSet(calls) : call.kind \in kinds}

\* C11: when an Evaluate call resolves as Failure (network error, non-2xx
\* response, malformed response shape, JSON parse failure), the output
\* becomes the fixed error message, the solved map is unchanged and loading
\* becomes false.
C11_EvaluateFailure ==
    [][lastResolved'.kind = "Evaluate" =>
       \A call \in CallsOf({"Evaluate"}) :
         \A response \in Responses(call.isJson) :
           (Failure(response, call.isJson) /\ Resolve(call, response, clock))
           => /\ output' = Str("Error connecting to AI Coach. Please try again.")
              /\ solvedStatus' = solvedStatus
              /\ ~isAiLoading']_vars

\* C11 witness: an Evaluate call has just failed after an exercise had been
\* solved: the error message is shown and the exercise is still solved.
C11_Witness ==
    /\ lastResolved.kind = "Evaluate"
    /\ lastResolved.result.t = "null"
    /\ output = Str("Error connecting to AI Coach. Please try again.")
    /\ \E id \in DOMAIN solvedStatus : IsSolved(solvedStatus, id)
    /\ ~isAiLoading

\* the action kinds whose calls return plain text
PlainKinds == {"Hint", "Solution", "ConceptExplain", "PerformanceAudit"}

\* C12: when a Hint, Solution, ConceptExplain or PerformanceAudit call
\* resolves as Failure, the output becomes a fallback message: a non-empty
\* string.
C12_PlainFailureFallback ==
    [][lastResolved'.kind \in PlainKinds =>
       \A call \in CallsOf(PlainKinds) :
         \A response \in Responses(call.isJson) :
           (Failure(response, call.isJson) /\ Resolve(call, response, clock))
           => output'.t = "string" /\ output'.v # ""]_vars

\* C13: when a Hint, Solution, ConceptExplain or PerformanceAudit call
\* resolves successfully with a text, the output becomes exactly that text,
\* the empty text included.
C13_PlainSuccessVerbatim ==
    [][lastResolved'.kind \in PlainKinds =>
       \A call \in CallsOf(PlainKinds) :
         \A response \in Responses(call.isJson) :
           (response.kind = "ok" /\ Resolve(call, response, clock))
           => output' = Str(response.text)]_vars

\* C14: every failure inside a call (network error, non-2xx response,
\* response without the candidates/content/parts/text path, JSON parse
\* failure) reaches the handler as the one Failure value, null, and the
\* component is still mounted after the handler has applied it.
C14_FailureIsNull ==
    [][lastResolved'.kind # "none" =>
       \A call \in BagToSet(calls) :
         \A response \in Responses(call.isJson) :
           \A now \in Now(call) :
             (Failure(response, call.isJson) /\ Resolve(call, response, now))
             => lastResolved'.result = Null /\ mounted']_vars

\* C15: a structured-output response whose text does not yield an object
\* with the fields of its action kind is handled as Failure: Evaluate shows
\* the fixed error message, GenerateExercise leaves the catalog as it is.
C15_ShapeMismatchIsFailure ==
    [][/\ (lastResolved'.kind = "Evaluate"
            /\ ~EvaluateShaped(lastResolved'.result))
          => output' = Str("Error connecting to AI Coach. Please try again.")
       /\ (lastResolved'.kind = "GenerateExercise"
            /\ ~ExerciseShaped(lastResolved'.result))
          => exercises' = exercises]_vars

\* C16: in every reachable state, loading = true implies that a call has
\* been issued and has not resolved yet.
C16_LoadingImpliesOutstanding ==
    isAiLoading => calls # EmptyBag /\ issued > 0

\* C16 witness: loading is true again after a first call resolved: a second
\* call was issued and is the only one in flight.
C16_Witness ==
    /\ isAiLoading
    /\ BagCardinality(calls) = 1
    /\ issued = 2

\* C17: in every reachable state, a call that has been issued and has not
\* resolved implies loading = true.
C17_OutstandingImpliesLoading ==
    calls # EmptyBag => isAiLoading

\* C18: at most one call is in flight at any time.
C18_OneCallInFlight ==
    BagCardinality(calls) <= 1

\* C19: no failure leaves the session stuck: when every fetch settles in
\* the end, a state with a call loading is eventually followed by a state
\* with loading = false in which the component is mounted, so that its
\* controls can be used again.
C19_NeverStuck ==
    isAiLoading ~> (~isAiLoading /\ mounted)

\* an Evaluate call in flight whose exercise is no longer the one shown
NavigatedAway(call) ==
    call.kind = "Evaluate" /\ call.exercise.id # exercise.id

\* C20, as claimed: when an Evaluate call resolves after the user navigated
\* to another exercise, the output becomes the feedback and, on correct =
\* true, the exercise solved afterwards is the one shown when the result is
\* applied.
C20_MarksExerciseShown ==
    [][lastResolved'.kind = "Evaluate" =>
       \A call \in CallsOf({"Evaluate"}) :
         \A response \in Responses(call.isJson) :
           (/\ NavigatedAway(call)
            /\ EvaluateShaped(ResultOf(call, response))
            /\ Resolve(call, response, clock))
           => /\ output' = Get(ResultOf(call, response), "feedback")
              /\ Truthy(Get(ResultOf(call, response), "correct"))
                   => IsSolved(solvedStatus', exercise.id)]_vars

\* C20, amended: when an Evaluate call resolves after the user navigated to
\* another exercise, the output becomes the feedback although another
\* exercise is shown and, on correct = true, the solved map becomes the map
\* of the time of the Check Answer press with the evaluated exercise (the
\* one shown at that press) added: the exercise shown now is solved after
\* the step only if that map had it.
C20_MarksExerciseEvaluated ==
    [][lastResolved'.kind = "Evaluate" =>
       \A call \in CallsOf({"Evaluate"}) :
         \A response \in Responses(call.isJson) :
           (/\ NavigatedAway(call)
            /\ EvaluateShaped(ResultOf(call, response))
            /\ Resolve(call, response, clock))
           => /\ output' = Get(ResultOf(call, response), "feedback")
              /\ exercise' = exercise
              /\ Truthy(Get(ResultOf(call, response), "correct"))
                   => /\ IsSolved(solvedStatus', call.exercise.id)
                      /\ IsSolved(solvedStatus', exercise.id)
                           <=> IsSolved(call.solvedStatus, exercise.id)]_vars

\* C20 witness: an Evaluate call issued on the first exercise has just
\* resolved with correct = true while the second exercise is shown: the
\* feedback is the output, the first exercise is solved, the second is not.
C20_Witness ==
    /\ lastResolved.kind = "Evaluate"
    /\ EvaluateShaped(lastResolved.result)
    /\ Truthy(Get(lastResolved.result, "correct"))
    /\ output = Get(lastResolved.result, "feedback")
    /\ currentIdx = 1
    /\ IsSolved(solvedStatus, exercises[1].id)
    /\ ~IsSolved(solvedStatus, exercises[2].id)

\* the body of a fetch names generationConfig, with responseMimeType
\* application/json
HasGenerationConfig(init) ==
    /\ "generationConfig" \in DOMAIN init
    /\ init.generationConfig.responseMimeType = "application/json"

\* C21: the body of the request carries generationConfig (responseMimeType
\* application/json) exactly for the structured-output actions: it is
\* present in the POST of Evaluate and GenerateExercise and absent from the
\* POST of Hint, Solution, ConceptExplain and PerformanceAudit.
C21_GenerationConfigIffJson ==
    [][/\ (checkSolution \/ (generateCustomExercise /\ posted' # NoPost))
          => HasGenerationConfig(posted')
       /\ (getAiHint \/ getSolution \/ explainConcept \/ performanceAudit)
          => /\ posted'.method = "POST"
             /\ "generationConfig" \notin DOMAIN posted']_vars

\* C21 witness: the step just taken posted a body without generationConfig
\* while a call posted with it (an Evaluate call) is in flight.
C21_Witness ==
    /\ posted.method = "POST"
    /\ ~HasGenerationConfig(posted)
    /\ CallsOf({"Evaluate"}) # {}

\* a step that is an accepted trigger of one of the six action kinds
AcceptedTrigger ==
    \/ checkSolution
    \/ getAiHint
    \/ getSolution
    \/ explainConcept
    \/ performanceAudit
    \/ generateCustomExercise /\ ~TopicRejected(aiCustomInput)

\* C22: every accepted trigger issues exactly one call (one fetch, one call
\* more in flight) and no other step issues any, the resolution of a call
\* as Failure included: the count of calls issued grows by one with each
\* accepted trigger and never otherwise.
C22_OneCallPerTrigger ==
    [][IF AcceptedTrigger
       THEN /\ issued' = issued + 1
            /\ BagCardinality(calls') = BagCardinality(calls) + 1
            /\ posted'.method = "POST"
       ELSE /\ issued' = issued
            /\ BagCardinality(calls') <= BagCardinality(calls)
            /\ posted' = NoPost]_vars

\* C22 witness: a call has just resolved as Failure: it is no longer in
\* flight, nothing was posted for it again and one call was issued in all.
C22_Witness ==
    /\ lastResolved.kind = "Hint"
    /\ lastResolved.result.t = "null"
    /\ issued = 1
    /\ calls = EmptyBag
    /\ posted = NoPost

\* C23: resetCode sets the code buffer to the current exercise's initial
\* code and leaves index, output, loading, catalog and solved map unchanged;
\* a second resetCode right after it changes nothing.
C23_ResetCode ==
    [][resetCode =>
         /\ code' = exercise.initialCode
         /\ UNCHANGED <<currentIdx, output, isAiLoading, exercises,
                        solvedStatus>>
         /\ (code = exercise.initialCode /\ lastResolved = NoCall
                /\ posted = NoPost)
              => UNCHANGED vars]_vars

\* C23 witness: the code was edited while a call was loading and has been
\* reset: it is the initial code again, the placeholder is still shown.
C23_Witness ==
    /\ code = exercise.initialCode
    /\ isAiLoading
    /\ output = Str("Generating a helpful hint...")
    /\ currentIdx > 0
    /\ posted = NoPost

\* the in-progress placeholders of the five handlers that set one
Placeholders ==
    {Str("AI Coach is reviewing your code for performance and correctness..."),
     Str("Generating a helpful hint..."),
     Str("Generating model solution and explanation..."),
     Str("Explaining technical concept..."),
     Str("Starting performance audit...")}

\* C24: triggering any of the six action kinds while idle sets loading and
\* sets the output to that action's in-progress placeholder: a non-empty
\* text that is the placeholder of no other action kind.
C24_TriggerSetsPlaceholder ==
    [][(AcceptedTrigger /\ ~isAiLoading) =>
         /\ isAiLoading'
         /\ checkSolution =>
              output' = Str("AI Coach is reviewing your code for performance and correctness...")
         /\ getAiHint => output' = Str("Generating a helpful hint...")
         /\ getSolution =>
              output' = Str("Generating model solution and explanation...")
         /\ explainConcept => output' = Str("Explaining technical concept...")
         /\ performanceAudit => output' = Str("Starting performance audit...")
         /\ (generateCustomExercise /\ ~WhitespaceOnly(aiCustomInput)) =>
              /\ output'.t = "string"
              /\ output'.v # ""
              /\ output' \notin Placeholders]_vars

\* what the continuation of a call of the given kind makes the output, as
\* a function of the value its await yielded and of nothing else
OutputProduced(kind, result) ==
    CASE kind = "Evaluate" ->
           IF Truthy(result) THEN Get(result, "feedback")
           ELSE Str("Error connecting to AI Coach. Please try again.")
      [] kind = "Hint" ->
           IF Truthy(result) THEN result ELSE Str("Could not generate hint.")
      [] kind = "Solution" ->
           IF Truthy(result) THEN result
           ELSE Str("Could not generate solution.")
      [] kind = "GenerateExercise" -> Str("")
      [] OTHER -> result

\* a completion that writes the output: every one but a GenerateExercise
\* Failure
WritesOutput(last) ==
    /\ last.kind # "none"
    /\ last.kind = "GenerateExercise" => Truthy(last.result)

\* C25: completions are folded in completion order: whatever calls were
\* issued before or are still in flight, and whatever the output was, after
\* a completion that writes the output the output is the value of the call
\* that has just resolved.
C25_LastCompletionWins ==
    [][WritesOutput(lastResolved') =>
         output' = OutputProduced(lastResolved'.kind, lastResolved'.result)]_vars

\* C25 witness: two calls overlapped and the one issued second resolved
\* first: the Hint call has just resolved and its text is the output, the
\* Evaluate call, which can only have been issued before it, is in flight.
C25_Witness ==
    /\ issued = 2
    /\ lastResolved.kind = "Hint"
    /\ lastResolved.result.t = "string"
    /\ output = lastResolved.result
    /\ output.v # ""
    /\ CallsOf({"Evaluate"}) # {}

\* a GenerateExercise call in flight resolves with an exercise
GenerateSucceeds ==
    \E call \in CallsOf({"GenerateExercise"}) :
      \E now \in Now(call) :
        Resolve(call, [kind |-> "ok", text |-> GenText], now)

\* C26: an issued call cannot be cancelled: Cancel and navigation leave
\* every call in flight, a GenerateExercise call in flight can resolve with
\* an exercise whatever the modal and the index are, and when it does the
\* new exercise is the last record of the catalog and the current one.
C26_NotCancellable ==
    /\ []((mounted /\ CallsOf({"GenerateExercise"}) # {})
            => ENABLED GenerateSucceeds)
    /\ [][/\ (cancelAiModal \/ handleNext \/ handlePrev) => calls' = calls
          /\ (lastResolved'.kind = "GenerateExercise" /\ GenerateSucceeds) =>
               /\ exercises'[Len(exercises')] =
                    NewExercise(lastResolved'.result, clock')
               /\ currentIdx' = Len(exercises') - 1]_vars

\* C26 witness: a GenerateExercise call is in flight after the modal was
\* cancelled and the user navigated to another exercise, and it can still
\* resolve with an exercise.
C26_Witness ==
    /\ CallsOf({"GenerateExercise"}) # {}
    /\ ~showAiModal
    /\ currentIdx = 2
    /\ isAiLoading
    /\ ENABLED GenerateSucceeds

\* C27: setCode can be taken in every state of the mounted component, a
\* call outstanding or not; it makes the code buffer the given string and
\* changes nothing else (index, output, loading, catalog, solved map), and
\* it leaves the calls in flight as they were issued: it posts nothing.
C27_SetCode ==
    /\ [](mounted => \A value \in CodeInputs : ENABLED setCode(value))
    /\ [][\A value \in CodeInputs :
            setCode(value) =>
              /\ code' = value
              /\ UNCHANGED <<currentIdx, output, isAiLoading, exercises,
                             solvedStatus, calls, issued>>
              /\ posted' = NoPost]_vars

\* C27 witness: the code buffer holds an edit while the Evaluate call is
\* outstanding, its placeholder still shown.
C27_Witness ==
    /\ code \in CodeInputs
    /\ code # exercise.initialCode
    /\ isAiLoading
    /\ CallsOf({"Evaluate"}) # {}
    /\ output = Str("AI Coach is reviewing your code for performance and correctness...")
    /\ posted = NoPost

\* C28: the request of an action is a function of its stated inputs alone:
\* the Hint request is the fixed instruction with a query made of the
\* exercise's prompt and the code buffer, the Solution request is the fixed
\* instruction with a query made of the exercise's prompt only, the same
\* for every code buffer.
C28_RequestFromInputsOnly ==
    [][/\ getAiHint =>
            /\ posted'.systemInstruction =
                 <<"Provide a subtle hint for the following coding task without giving away the full answer. Be technical. Focus on Unity best practices.">>
            /\ posted'.contents =
                 <<"Task: ", Interpolate(exercise.prompt),
                   "\nMy Current Code: ", Interpolate(code)>>
       /\ getSolution =>
            /\ posted'.systemInstruction =
                 <<"Provide the optimal solution for the following Unity Tech Artist task. Explain why this solution is better for a performance-critical environment like Garmin (wearables/embedded).">>
            /\ posted'.contents = <<"Task: ", Interpolate(exercise.prompt)>>]_vars

\* C28 witness: a Solution request has just been posted for the second
\* exercise with an edited code buffer: its query holds the prompt alone.
C28_Witness ==
    /\ posted.method = "POST"
    /\ posted.contents = <<"Task: ", Interpolate(exercises[2].prompt)>>
    /\ currentIdx = 1
    /\ code \in CodeInputs
    /\ code # exercise.initialCode

\* C29: in every reachable state the output is a text string, possibly
\* empty, never null or undefined.
C29_OutputIsString ==
    output.t = "string"

\* a catalog whose records all have their texts
WellFormedCatalog ==
    \A i \in DOMAIN exercises :
      /\ exercises[i].title.t = "string"
      /\ exercises[i].initialCode.t = "string"

\* C30: the solved map changes only in a step in which an Evaluate call
\* resolves with correct = true, and every key of it is the identifier of a
\* record of the catalog (stated for the catalogs of well-formed records).
C30_SolvedFrame ==
    /\ [](WellFormedCatalog =>
            \A id \in DOMAIN solvedStatus :
              \E i \in DOMAIN exercises : exercises[i].id = id)
    /\ [][solvedStatus' # solvedStatus =>
            /\ lastResolved'.kind = "Evaluate"
            /\ Truthy(Get(lastResolved'.result, "correct"))]_vars

====
